---- MODULE Spec2Model ----
(***************************************************************************)
(* Model of nfstest/host.py: class Host.                                   *)
(*                                                                         *)
(* One Host object (a session) is modelled.  A handler that issues         *)
(* commands is split at its run_cmd() calls: the step that calls the       *)
(* handler runs the code up to the first command it issues, and each later *)
(* step completes the pending command with an outcome chosen by the        *)
(* environment and runs the code up to the next command.  The session is   *)
(* single threaded, so while pc # "idle" only the step at pc is enabled.   *)
(*                                                                         *)
(* Strings are sequences of one-character strings, so that rstrip, join    *)
(* and re.search are computed as Python computes them.                     *)
(***************************************************************************)
EXTENDS Integers, Sequences, FiniteSets, TLC

(***************************************************************************)
(* Bounds of the model                                                     *)
(***************************************************************************)
\* how many of TextPool's texts a command may print
NTexts == 2
\* how many background processes a run may start
MaxProcs == 2
\* process ids the operating system hands out: 1..MaxPid
MaxPid == 2

(***************************************************************************)
(* Program constants                                                       *)
(***************************************************************************)
\* for i in range(5)
UmountTries == 5
\* time.sleep(1)
SleepSeconds == 1
\* exit status of ssh itself
SshError == 255

(***************************************************************************)
(* Strings                                                                 *)
(***************************************************************************)
NoText == << >>
TxtNotMounted == <<"a", ":", " ", "n", "o", "t", " ", "m", "o", "u", "n", "t", "e", "d">>
TxtBusy == <<"b", "u", "s", "y">>
TxtNotFound == <<"n", "o", "t", " ", "f", "o", "u", "n", "d">>
TxtNotMount == <<"n", "o", "t", " ", "m", "o", "u", "n", "t">>
TextPool == <<TxtNotMounted, TxtBusy, NoText, TxtNotFound, TxtNotMount>>
Texts == {TextPool[k] : k \in 1..NTexts}

PatMounted == <<"n", "o", "t", " ", "m", "o", "u", "n", "t", "e", "d">>
PatFound == <<"n", "o", "t", " ", "f", "o", "u", "n", "d">>

\* pat occurs somewhere in t
Search(pat, t) ==
    \E k \in 1..(Len(t) - Len(pat) + 1) : SubSeq(t, k, k + Len(pat) - 1) = pat

\* re.search('not (mounted|found)', t)
re_search(t) == Search(PatMounted, t) \/ Search(PatFound, t)

PathA == <<"/", "a">>
PathB == <<"/", "b">>
PathA1 == <<"/", "a", "/">>
PathA2 == <<"/", "a", "/", "/">>
\* the mount points mount() may be given
MtArgs == {PathA1, PathA2, PathB}
\* the mount point the constructor is given
InitMtpoints == {PathA}
DataDirs == {NoText, <<"d">>}

RECURSIVE rstrip(_)
\* s.rstrip("/")
rstrip(s) ==
    IF Len(s) > 0 /\ s[Len(s)] = "/" THEN rstrip(SubSeq(s, 1, Len(s) - 1)) ELSE s

\* os.path.join(a, b)
path_join(a, b) ==
    IF Len(b) > 0 /\ b[1] = "/" THEN b
    ELSE IF Len(a) = 0 \/ a[Len(a)] = "/" THEN a \o b
    ELSE a \o <<"/">> \o b

Range(s) == {s[k] : k \in 1..Len(s)}

(***************************************************************************)
(* The mount command                                                       *)
(***************************************************************************)
PathMntT == <<"/", "m", "n", "t", "/", "t">>
\* mtopts [default: 'hard,rsize=4096,wsize=4096']
MtoptsDefault ==
    <<"h", "a", "r", "d", ",", "r", "s", "i", "z", "e", "=", "4", "0", "9",
      "6", ",", "w", "s", "i", "z", "e", "=", "4", "0", "9", "6">>
MtoptsComma ==
    <<"h", "a", "r", "d", ",", "r", "s", "i", "z", "e", "=", "4", "0", "9",
      "6", ",", "w", "s", "i", "z", "e", "=", "4", "0", "9", "6", ",">>
ProtoTcp == <<"t", "c", "p">>
ProtoUdp == <<"u", "d", "p">>
SecSys == <<"s", "y", "s">>
Server1 == <<"1", "0", ".", "0", ".", "0", ".", "1">>
ExportX == <<"/", "x">>
ExportX1 == <<"/", "x", "/">>
ExportRoot == <<"/">>
\* the pieces of "mount -o vers=%d,%s%sproto=%s,sec=%s,port=%d %s:%s %s"
FmtMount ==
    <<"m", "o", "u", "n", "t", " ", "-", "o", " ", "v", "e", "r", "s", "=">>
FmtProto == <<"p", "r", "o", "t", "o", "=">>
FmtSec == <<",", "s", "e", "c", "=">>
FmtPort == <<",", "p", "o", "r", "t", "=">>
\* "minorversion=%d,"
FmtMinor == <<"m", "i", "n", "o", "r", "v", "e", "r", "s", "i", "o", "n", "=">>
Comma == <<",">>
Space == <<" ">>
Colon == <<":">>

NfsPort == 2049

Digits == <<"0", "1", "2", "3", "4", "5", "6", "7", "8", "9">>

RECURSIVE Dec(_)
\* "%d" % n for a natural number n
Dec(n) == IF n < 10 THEN <<Digits[n + 1]>> ELSE Dec(n \div 10) \o <<Digits[(n % 10) + 1]>>

\* the options of mount(): its keyword arguments, by default those of __init__;
\* here the documented defaults, with a server and an export to mount
DefaultOptions ==
    [nfsversion |-> 4, minorversion |-> 1, mtopts |-> MtoptsDefault,
     proto |-> ProtoTcp, sec |-> SecSys, port |-> NfsPort, server |-> Server1,
     export |-> ExportX]

OptionSets ==
    [nfsversion : {3, 4}, minorversion : {0, 1},
     mtopts : {MtoptsDefault, MtoptsComma, NoText},
     proto : {ProtoTcp, ProtoUdp}, sec : {SecSys}, port : {NfsPort},
     server : {Server1}, export : {ExportX, ExportX1, ExportRoot}]

\* if len(export) > 1: export = export.rstrip("/")
Export(e) == IF Len(e) > 1 THEN rstrip(e) ELSE e

\* mtopts += ',' whatever mtopts ends in
Mtopts_AlwaysAppend(m) == m \o Comma

\* if mtopts[-1] != ',': mtopts += ','   (mtopts is not empty)
Mtopts(m) == IF m[Len(m)] # "," THEN m \o Comma ELSE m

\* minorversion_str
MinorversionStr(v, minor) == IF v = 4 THEN FmtMinor \o Dec(minor) \o Comma ELSE NoText

\* cmd = "mount -o vers=%d,%s%sproto=%s,sec=%s,port=%d %s:%s %s" % (...)
mount_cmd(o, mtp) ==
    FmtMount \o Dec(o.nfsversion) \o Comma \o MinorversionStr(o.nfsversion, o.minorversion)
    \o Mtopts(o.mtopts) \o FmtProto \o o.proto \o FmtSec \o o.sec
    \o FmtPort \o Dec(o.port) \o Space \o o.server \o Colon \o Export(o.export)
    \o Space \o mtp

(***************************************************************************)
(* Command outcomes: what the process started by run_cmd() produces        *)
(***************************************************************************)
ExitCodes == {0, 1, SshError}
Outcomes == [rc : ExitCodes, out : Texts, err : Texts]
\* os.mkdir() returns (rc 0) or raises OSError (rc 1)
SysOutcomes == [rc : {0, 1}, out : {NoText}, err : {NoText}]

\* the strings _check_mtpoint() may be given
KeyPaths ==
    MtArgs \cup InitMtpoints \cup {rstrip(p) : p \in MtArgs \cup InitMtpoints}
    \cup {PathMntT}

NoCmd == [kind |-> "none", path |-> NoText, sudo |-> FALSE, text |-> NoText]
NoOutcome == [rc |-> 0, out |-> NoText, err |-> NoText]
NoExc == [kind |-> "none", payload |-> NoText]
None == <<"None">>
\* self.process after a blocking command: the Popen object of that command
BlockingProc == -1

VARIABLES
    \* configuration
    localhost, nomount, options,
    \* Host fields
    mtpoint, mtdir, mounted,
    checkmtpoint, invalidmtpoint, mtpoint_created,
    need_network_reset,
    process_list, process_smap, process_dmap,
    process, pstdout, pstderr, perror, returncode,
    \* how many background commands were started: their Popen objects are 1..nprocs
    nprocs,
    \* position in the running handler and its locals
    pc, op, cont, arg, i, plist, terminate, out, idx,
    \* how the last handler ended
    raised, exc, ret,
    \* history of the commands issued
    lastCmd, lastOut, ncmds, cmdFailed, mountOk, mountsLive,
    sleeps, umHist, mountedBefore,
    chkCount, mkdirCount, mkdirOk, rmdirTried,
    killed, signalled

cfgVars == <<localhost, nomount, options>>
mntVars == <<mtpoint, mtdir, mounted>>
memoVars == <<checkmtpoint, invalidmtpoint, mtpoint_created>>
procVars == <<process_list, process_smap, process_dmap, nprocs>>
resVars == <<process, pstdout, pstderr, perror, returncode>>
waitVars == <<plist, terminate, out>>
endVars == <<raised, exc, ret>>
logVars == <<mountOk, mountsLive, mkdirCount, mkdirOk, rmdirTried>>
callVars == <<op, mountedBefore, ncmds, cmdFailed, killed, signalled, lastCmd, lastOut>>
umVars == <<sleeps, umHist>>

vars == <<cfgVars, mntVars, memoVars, need_network_reset, procVars, resVars,
          pc, cont, arg, i, idx, waitVars, endVars, logVars, callVars, umVars, chkCount>>

\* the fields __init__() sets whatever its arguments are
InitFields ==
    /\ mtdir = mtpoint
    /\ mounted = FALSE
    /\ checkmtpoint = << >>
    /\ invalidmtpoint = << >>
    /\ mtpoint_created = << >>
    /\ need_network_reset = FALSE
    /\ process_list = << >>
    /\ process_smap = {}
    /\ process_dmap = {}
    /\ process = 0
    /\ pstdout = NoText
    /\ pstderr = NoText
    /\ perror = NoText
    /\ returncode = 0
    /\ nprocs = 0
    /\ pc = "idle"
    /\ op = "none"
    /\ cont = "none"
    /\ arg = NoText
    /\ i = 0
    /\ plist = << >>
    /\ terminate = FALSE
    /\ out = None
    /\ idx = 1
    /\ raised = FALSE
    /\ exc = NoExc
    /\ ret = None
    /\ lastCmd = NoCmd
    /\ lastOut = NoOutcome
    /\ ncmds = 0
    /\ cmdFailed = FALSE
    /\ mountOk = FALSE
    /\ mountsLive = {}
    /\ sleeps = 0
    /\ umHist = << >>
    /\ mountedBefore = FALSE
    /\ chkCount = [p \in KeyPaths |-> 0]
    /\ mkdirCount = [p \in KeyPaths |-> 0]
    /\ mkdirOk = {}
    /\ rmdirTried = << >>
    /\ killed = {}
    /\ signalled = {}

Init ==
    /\ localhost \in BOOLEAN
    /\ nomount \in BOOLEAN
    /\ options = DefaultOptions
    /\ mtpoint \in InitMtpoints
    /\ InitFields

\* a session given any of the mount options, on the mount point /mnt/t
InitCmd ==
    /\ localhost \in BOOLEAN
    /\ nomount = FALSE
    /\ options \in OptionSets
    /\ mtpoint = PathMntT
    /\ InitFields

(***************************************************************************)
(* run_cmd(): a blocking command                                           *)
(***************************************************************************)
\* self.perror once the command has ended with outcome o
Perror(o) ==
    IF localhost
    THEN IF o.rc # 0 THEN o.err ELSE NoText
    ELSE IF o.rc = SshError THEN NoText
         ELSE IF o.rc # 0 THEN o.out ELSE NoText

\* run_cmd() raises
Raises(o) == o.rc # 0

\* the argument of the Exception run_cmd() raises
ExcPayload(o) ==
    IF localhost THEN o.err
    ELSE IF o.rc = SshError THEN o.err ELSE o.out

CmdExc(o) == [kind |-> "cmd", payload |-> ExcPayload(o)]

\* the fields run_cmd(wait=True) leaves on the object
run_cmd(o) ==
    /\ process' = BlockingProc
    /\ pstdout' = o.out
    /\ pstderr' = o.err
    /\ perror' = Perror(o)
    /\ returncode' = o.rc

\* the test without the pattern: only a zero exit status ends the loop
UmountDone_ExitOnly(rc, pe) == rc = 0

\* the test umount() makes after an attempt
UmountDone(rc, pe) == rc = 0 \/ re_search(pe)

Bump(f, p) == [f EXCEPT ![p] = IF @ < 2 THEN @ + 1 ELSE @]

\* history: a command (or os.mkdir) of this kind ended with outcome o; the
\* command line is kept for the mount command; mountsLive are the paths whose
\* mount command succeeded with no umount of that path succeeding or answering
\* "not mounted" since
Log(kind, path, sudo, o) ==
    /\ lastCmd' = [kind |-> kind, path |-> path, sudo |-> sudo,
                   text |-> IF kind = "mount" THEN mount_cmd(options, path) ELSE NoText]
    /\ lastOut' = o
    /\ ncmds' = ncmds + 1
    /\ cmdFailed' = (cmdFailed \/ o.rc # 0)
    /\ mountOk' = IF kind = "mount" /\ o.rc = 0 THEN TRUE
                  ELSE IF kind = "umount" /\ (o.rc = 0 \/ re_search(Perror(o))) THEN FALSE
                  ELSE mountOk
    /\ mountsLive' = IF kind = "mount" /\ o.rc = 0 THEN mountsLive \cup {path}
                     ELSE IF kind = "umount" /\ (o.rc = 0 \/ re_search(Perror(o)))
                     THEN mountsLive \ {path}
                     ELSE mountsLive
    /\ mkdirCount' = IF kind = "mkdir_mt" THEN Bump(mkdirCount, path) ELSE mkdirCount
    /\ mkdirOk' = IF kind = "mkdir_mt" /\ o.rc = 0 THEN mkdirOk \cup {path} ELSE mkdirOk
    /\ rmdirTried' = IF kind = "rmdir" THEN Append(rmdirTried, path) ELSE rmdirTried
    /\ UNCHANGED <<op, mountedBefore, killed, signalled>>

Exec(kind, path, sudo, o) == run_cmd(o) /\ Log(kind, path, sudo, o)

(***************************************************************************)
(* How a handler starts, goes on and ends                                  *)
(***************************************************************************)
\* a call of handler o on the idle object: what is known of the call
Begin(o) ==
    /\ pc = "idle"
    /\ op' = o
    /\ mountedBefore' = mounted
    /\ ncmds' = 0
    /\ cmdFailed' = FALSE
    /\ killed' = {}
    /\ signalled' = {}
    /\ sleeps' = 0
    /\ umHist' = << >>
    /\ lastCmd' = NoCmd
    /\ lastOut' = NoOutcome
    /\ UNCHANGED logVars

\* the locals of the handler that starts: c called _check_mtpoint(a)
Frame(c, a) == cont' = c /\ arg' = a /\ i' = 0 /\ idx' = 1

frameVars == <<cont, arg, i, idx>>

Goto(l) == pc' = l /\ raised' = FALSE /\ exc' = NoExc /\ ret' = None

Return(r) == pc' = "idle" /\ raised' = FALSE /\ exc' = NoExc /\ ret' = r

\* an exception leaves handler o; in __del__ it ends the teardown
Raise(e, o) ==
    /\ pc' = IF o = "del" THEN "dead" ELSE "idle"
    /\ raised' = TRUE
    /\ exc' = e
    /\ ret' = None

\* __del__: the rmdir loop is at element k of _mtpoint_created
RmdirNext(k) ==
    IF k > Len(mtpoint_created)
    THEN pc' = "dead" /\ raised' = FALSE /\ exc' = NoExc /\ ret' = None
    ELSE Goto("del_rmdir")

\* umount() returns, to its caller or to __del__
UmountReturn(o) == IF o = "del" THEN RmdirNext(1) ELSE Return(None)

(***************************************************************************)
(* _check_mtpoint()                                                        *)
(***************************************************************************)
\* what os.path.exists() and os.path.isdir() may answer on the local host:
\* <<exist, isdir>>, isdir keeping its initial True when the path is absent.
\* A remote host is asked by commands, whose outcomes are the answers.
LocalAnswers ==
    IF localhost THEN {<<FALSE, TRUE>>, <<TRUE, TRUE>>, <<TRUE, FALSE>>}
    ELSE {<<TRUE, TRUE>>}

\* the code that follows the call of _check_mtpoint(p), without the test of
\* self.nomount in mount()
AfterCheck_IgnoreNomount(p, c, o) ==
    IF c = "mount"
    THEN IF p \in Range(invalidmtpoint)
         THEN Return(None)
         ELSE IF options.mtopts = NoText
              THEN Raise([kind |-> "indexerror", payload |-> NoText], o)
              ELSE Goto("mnt_cmd")
    ELSE IF mtpoint \in Range(invalidmtpoint)
         THEN UmountReturn(o)
         ELSE Goto("um_try")

\* the code of mount() or umount() that follows its call of _check_mtpoint(p)
AfterCheck(p, c, o) ==
    IF c = "mount"
    THEN IF nomount \/ p \in Range(invalidmtpoint)
         THEN Return(None)
         ELSE IF options.mtopts = NoText
              THEN Raise([kind |-> "indexerror", payload |-> NoText], o)
              ELSE Goto("mnt_cmd")
    ELSE IF mtpoint \in Range(invalidmtpoint)
         THEN UmountReturn(o)
         ELSE Goto("um_try")

\* the end of _check_mtpoint(): if not exist ... elif not isdir ...
CheckEnd(p, c, o, exist, isdir) ==
    IF ~exist
    THEN /\ Goto("chk_mkdir")
         /\ UNCHANGED invalidmtpoint
    ELSE IF ~isdir
         THEN /\ invalidmtpoint' = Append(invalidmtpoint, p)
              /\ Raise([kind |-> "notdir", payload |-> p], o)
         ELSE /\ UNCHANGED invalidmtpoint
              /\ AfterCheck(p, c, o)

\* _check_mtpoint() that remembers a path only if it found it
check_mtpoint_MemoLate(p, c, o, ans) ==
    IF p \in Range(checkmtpoint)
    THEN /\ UNCHANGED <<checkmtpoint, invalidmtpoint, chkCount>>
         /\ AfterCheck(p, c, o)
    ELSE /\ checkmtpoint' = IF localhost /\ ~ans[1] THEN checkmtpoint
                            ELSE Append(checkmtpoint, p)
         /\ chkCount' = Bump(chkCount, p)
         /\ IF localhost
            THEN CheckEnd(p, c, o, ans[1], ans[2])
            ELSE /\ Goto("chk_e")
                 /\ UNCHANGED invalidmtpoint

\* _check_mtpoint(p) called by handler c of operation o, up to its first command;
\* ans is what the local file system answers if it is asked
check_mtpoint(p, c, o, ans) ==
    IF p \in Range(checkmtpoint)
    THEN /\ UNCHANGED <<checkmtpoint, invalidmtpoint, chkCount>>
         /\ AfterCheck(p, c, o)
    ELSE /\ checkmtpoint' = Append(checkmtpoint, p)
         /\ chkCount' = Bump(chkCount, p)
         /\ IF localhost
            THEN CheckEnd(p, c, o, ans[1], ans[2])
            ELSE /\ Goto("chk_e")
                 /\ UNCHANGED invalidmtpoint

\* test -e ended
ChkE ==
    /\ pc = "chk_e"
    /\ \E o \in Outcomes :
        /\ Exec("test_e", arg, FALSE, o)
        /\ IF o.rc = 0 THEN Goto("chk_d") ELSE Goto("chk_mkdir")
    /\ UNCHANGED <<cfgVars, mntVars, memoVars, need_network_reset, procVars,
                   frameVars, waitVars, umVars, chkCount>>

\* test -d ended
ChkD ==
    /\ pc = "chk_d"
    /\ \E o \in Outcomes :
        /\ Exec("test_d", arg, FALSE, o)
        /\ CheckEnd(arg, cont, op, TRUE, o.rc = 0)
    /\ UNCHANGED <<cfgVars, mntVars, checkmtpoint, mtpoint_created, need_network_reset,
                   procVars, frameVars, waitVars, umVars, chkCount>>

\* mkdir -p ended, the path recorded as created whether or not it was
ChkMkdir_RecordFirst ==
    /\ pc = "chk_mkdir"
    /\ \E o \in Outcomes :
        /\ Exec("mkdir_mt", arg, TRUE, o)
        /\ mtpoint_created' = Append(mtpoint_created, arg)
        /\ IF Raises(o) THEN Raise(CmdExc(o), op) ELSE AfterCheck(arg, cont, op)
    /\ UNCHANGED <<cfgVars, mntVars, checkmtpoint, invalidmtpoint, need_network_reset,
                   procVars, frameVars, waitVars, umVars, chkCount>>

\* mkdir -p of the mount point ended
ChkMkdir ==
    /\ pc = "chk_mkdir"
    /\ \E o \in Outcomes :
        /\ Exec("mkdir_mt", arg, TRUE, o)
        /\ IF Raises(o)
           THEN /\ Raise(CmdExc(o), op)
                /\ UNCHANGED mtpoint_created
           ELSE /\ mtpoint_created' = Append(mtpoint_created, arg)
                /\ AfterCheck(arg, cont, op)
    /\ UNCHANGED <<cfgVars, mntVars, checkmtpoint, invalidmtpoint, need_network_reset,
                   procVars, frameVars, waitVars, umVars, chkCount>>

(***************************************************************************)
(* mount()                                                                 *)
(***************************************************************************)
\* self.mtdir for mount point p and data directory dd
Mtdir(p, dd) == IF Len(dd) > 0 THEN path_join(p, dd) ELSE p

\* mount() that validates the mount point as it was given
mount_RawKey(mtp, dd, ans) ==
    /\ Begin("mount")
    /\ Frame("mount", rstrip(mtp))
    /\ mtdir' = Mtdir(rstrip(mtp), dd)
    /\ check_mtpoint(mtp, "mount", "mount", ans)
    /\ UNCHANGED <<cfgVars, mtpoint, mounted, mtpoint_created, need_network_reset,
                   procVars, resVars, waitVars>>

\* mount(mtpoint=mtp, datadir=dd) up to its first command
mount(mtp, dd, ans) ==
    /\ Begin("mount")
    /\ Frame("mount", rstrip(mtp))
    /\ mtdir' = Mtdir(rstrip(mtp), dd)
    /\ check_mtpoint(rstrip(mtp), "mount", "mount", ans)
    /\ UNCHANGED <<cfgVars, mtpoint, mounted, mtpoint_created, need_network_reset,
                   procVars, resVars, waitVars>>

CallMount ==
    \E mtp \in MtArgs \cup {mtpoint}, dd \in DataDirs, ans \in LocalAnswers :
        mount(mtp, dd, ans)

\* os.path.exists(self.mtdir) on the file system just mounted: its root exists
MtdirExists == IF mtdir = arg THEN {TRUE} ELSE BOOLEAN

\* the mount command ended, the flag set before the command was run
MntCmd_FlagFirst ==
    /\ pc = "mnt_cmd"
    /\ \E o \in Outcomes :
        /\ Exec("mount", arg, TRUE, o)
        /\ mounted' = TRUE
        /\ IF Raises(o)
           THEN /\ Raise(CmdExc(o), op)
                /\ UNCHANGED mtpoint
           ELSE /\ mtpoint' = arg
                /\ IF localhost
                   THEN \E e \in MtdirExists :
                            IF e THEN Return(arg) ELSE Goto("dd_mkdir")
                   ELSE Goto("dd_test")
    /\ UNCHANGED <<cfgVars, mtdir, memoVars, need_network_reset, procVars,
                   frameVars, waitVars, umVars, chkCount>>

\* the mount command ended, the path mounted not recorded
MntCmd_PathNotRecorded ==
    /\ pc = "mnt_cmd"
    /\ \E o \in Outcomes :
        /\ Exec("mount", arg, TRUE, o)
        /\ IF Raises(o)
           THEN /\ Raise(CmdExc(o), op)
                /\ UNCHANGED mounted
           ELSE /\ mounted' = TRUE
                /\ IF localhost
                   THEN \E e \in MtdirExists :
                            IF e THEN Return(arg) ELSE Goto("dd_mkdir")
                   ELSE Goto("dd_test")
    /\ UNCHANGED <<cfgVars, mtpoint, mtdir, memoVars, need_network_reset, procVars,
                   frameVars, waitVars, umVars, chkCount>>

\* the mount command ended
MntCmd ==
    /\ pc = "mnt_cmd"
    /\ \E o \in Outcomes :
        /\ Exec("mount", arg, TRUE, o)
        /\ IF Raises(o)
           THEN /\ Raise(CmdExc(o), op)
                /\ UNCHANGED <<mounted, mtpoint>>
           ELSE /\ mounted' = TRUE
                /\ mtpoint' = arg
                /\ IF localhost
                   THEN \E e \in MtdirExists :
                            IF e THEN Return(arg) ELSE Goto("dd_mkdir")
                   ELSE Goto("dd_test")
    /\ UNCHANGED <<cfgVars, mtdir, memoVars, need_network_reset, procVars,
                   frameVars, waitVars, umVars, chkCount>>

\* test -e of the data directory ended
DdTest ==
    /\ pc = "dd_test"
    /\ \E o \in Outcomes :
        /\ Exec("test_e_dd", mtdir, FALSE, o)
        /\ IF o.rc # 0 THEN Goto("dd_mkdir") ELSE Return(arg)
    /\ UNCHANGED <<cfgVars, mntVars, memoVars, need_network_reset, procVars,
                   frameVars, waitVars, umVars, chkCount>>

\* the creation of the data directory ended, its failure ignored
DdMkdir_Swallow ==
    /\ pc = "dd_mkdir"
    /\ IF localhost
       THEN \E o \in SysOutcomes :
            /\ Log("os_mkdir", mtdir, FALSE, o)
            /\ UNCHANGED resVars
            /\ Return(arg)
       ELSE \E o \in Outcomes :
            /\ Exec("mkdir_dd", mtdir, FALSE, o)
            /\ Return(arg)
    /\ UNCHANGED <<cfgVars, mntVars, memoVars, need_network_reset, procVars,
                   frameVars, waitVars, umVars, chkCount>>

\* the creation of the data directory ended: os.mkdir() or mkdir -m 0777 -p
DdMkdir ==
    /\ pc = "dd_mkdir"
    /\ IF localhost
       THEN \E o \in SysOutcomes :
            /\ Log("os_mkdir", mtdir, FALSE, o)
            /\ UNCHANGED resVars
            /\ IF o.rc # 0
               THEN Raise([kind |-> "oserror", payload |-> mtdir], op)
               ELSE Return(arg)
       ELSE \E o \in Outcomes :
            /\ Exec("mkdir_dd", mtdir, FALSE, o)
            /\ IF Raises(o) THEN Raise(CmdExc(o), op) ELSE Return(arg)
    /\ UNCHANGED <<cfgVars, mntVars, memoVars, need_network_reset, procVars,
                   frameVars, waitVars, umVars, chkCount>>

(***************************************************************************)
(* umount()                                                                *)
(***************************************************************************)
\* umount() called by operation o, up to its first command
umount(o, ans) ==
    IF nomount
    THEN /\ UmountReturn(o)
         /\ UNCHANGED <<checkmtpoint, invalidmtpoint, chkCount>>
    ELSE check_mtpoint(mtpoint, "umount", o, ans)

CallUmount ==
    /\ Begin("umount")
    /\ Frame("umount", mtpoint)
    /\ \E ans \in LocalAnswers : umount("umount", ans)
    /\ UNCHANGED <<cfgVars, mntVars, mtpoint_created, need_network_reset, procVars,
                   resVars, waitVars>>

\* what the outcome of an attempt is, for the history
Class(o) ==
    IF o.rc = 0 THEN "ok"
    ELSE IF re_search(Perror(o)) THEN "gone"
    ELSE "fail"

\* the loop without its break
UmTry_NoBreak ==
    /\ pc = "um_try"
    /\ \E o \in Outcomes :
        /\ sleeps' = sleeps + SleepSeconds
        /\ Exec("umount", mtpoint, TRUE, o)
        /\ umHist' = Append(umHist, Class(o))
        /\ mounted' = IF UmountDone(returncode', perror') THEN FALSE ELSE mounted
        /\ IF i + 1 < UmountTries
           THEN i' = i + 1 /\ Goto("um_try")
           ELSE i' = i /\ UmountReturn(op)
    /\ UNCHANGED <<cfgVars, mtpoint, mtdir, memoVars, need_network_reset, procVars,
                   cont, arg, idx, waitVars, chkCount>>

\* the loop that gives the mount up after its last attempt
UmTry_GiveUp ==
    /\ pc = "um_try"
    /\ \E o \in Outcomes :
        /\ sleeps' = sleeps + SleepSeconds
        /\ Exec("umount", mtpoint, TRUE, o)
        /\ umHist' = Append(umHist, Class(o))
        /\ IF UmountDone(returncode', perror')
           THEN /\ mounted' = FALSE
                /\ i' = i
                /\ UmountReturn(op)
           ELSE IF i + 1 < UmountTries
                THEN mounted' = mounted /\ i' = i + 1 /\ Goto("um_try")
                ELSE mounted' = FALSE /\ i' = i /\ UmountReturn(op)
    /\ UNCHANGED <<cfgVars, mtpoint, mtdir, memoVars, need_network_reset, procVars,
                   cont, arg, idx, waitVars, chkCount>>

\* one pass of the loop: sleep, umount -f, test
UmTry ==
    /\ pc = "um_try"
    /\ \E o \in Outcomes :
        /\ sleeps' = sleeps + SleepSeconds
        /\ Exec("umount", mtpoint, TRUE, o)
        /\ umHist' = Append(umHist, Class(o))
        /\ IF UmountDone(returncode', perror')
           THEN /\ mounted' = FALSE
                /\ i' = i
                /\ UmountReturn(op)
           ELSE /\ mounted' = mounted
                /\ IF i + 1 < UmountTries
                   THEN i' = i + 1 /\ Goto("um_try")
                   ELSE i' = i /\ UmountReturn(op)
    /\ UNCHANGED <<cfgVars, mtpoint, mtdir, memoVars, need_network_reset, procVars,
                   cont, arg, idx, waitVars, chkCount>>

(***************************************************************************)
(* The caller's own blocking commands                                      *)
(***************************************************************************)
\* run_cmd(cmd, sudo, wait=True) called on the object
CallRunCmd ==
    /\ Begin("run_cmd")
    /\ Frame("none", NoText)
    /\ Goto("run")
    /\ UNCHANGED <<cfgVars, mntVars, memoVars, need_network_reset, procVars, resVars,
                   waitVars, chkCount>>

RunDone ==
    /\ pc = "run"
    /\ \E o \in Outcomes, sudo \in BOOLEAN :
        /\ Exec("user", NoText, sudo, o)
        /\ IF Raises(o) THEN Raise(CmdExc(o), op) ELSE Return(o.out)
    /\ UNCHANGED <<cfgVars, mntVars, memoVars, need_network_reset, procVars,
                   frameVars, waitVars, umVars, chkCount>>

(***************************************************************************)
(* network_drop(), network_reset()                                         *)
(***************************************************************************)
network_drop ==
    /\ Begin("network_drop")
    /\ Frame("none", NoText)
    /\ need_network_reset' = TRUE
    /\ Goto("nd_cmd")
    /\ UNCHANGED <<cfgVars, mntVars, memoVars, procVars, resVars, waitVars, chkCount>>

NdCmd ==
    /\ pc = "nd_cmd"
    /\ \E o \in Outcomes :
        /\ Exec("iptables_drop", NoText, TRUE, o)
        /\ IF Raises(o) THEN Raise(CmdExc(o), op) ELSE Return(None)
    /\ UNCHANGED <<cfgVars, mntVars, memoVars, need_network_reset, procVars,
                   frameVars, waitVars, umVars, chkCount>>

network_reset ==
    /\ Begin("network_reset")
    /\ Frame("none", NoText)
    /\ Goto("nr_flush")
    /\ UNCHANGED <<cfgVars, mntVars, memoVars, need_network_reset, procVars, resVars,
                   waitVars, chkCount>>

\* the flush ended, its failure not caught
NrFlush_Raise ==
    /\ pc = "nr_flush"
    /\ \E o \in Outcomes :
        /\ Exec("iptables_flush", NoText, TRUE, o)
        /\ IF Raises(o) THEN Raise(CmdExc(o), op) ELSE Goto("nr_delete")
    /\ UNCHANGED <<cfgVars, mntVars, memoVars, need_network_reset, procVars,
                   frameVars, waitVars, umVars, chkCount>>

NrFlush ==
    /\ pc = "nr_flush"
    /\ \E o \in Outcomes :
        /\ Exec("iptables_flush", NoText, TRUE, o)
        /\ Goto("nr_delete")
    /\ UNCHANGED <<cfgVars, mntVars, memoVars, need_network_reset, procVars,
                   frameVars, waitVars, umVars, chkCount>>

NrDelete ==
    /\ pc = "nr_delete"
    /\ \E o \in Outcomes :
        /\ Exec("iptables_delete_chain", NoText, TRUE, o)
        /\ IF op = "del" THEN Goto("del_umount") ELSE Return(None)
    /\ UNCHANGED <<cfgVars, mntVars, memoVars, need_network_reset, procVars,
                   frameVars, waitVars, umVars, chkCount>>

(***************************************************************************)
(* __del__()                                                               *)
(***************************************************************************)
\* __del__() up to its first command
del ==
    /\ Begin("del")
    /\ Frame("umount", mtpoint)
    /\ IF need_network_reset THEN Goto("nr_flush") ELSE Goto("del_umount")
    /\ UNCHANGED <<cfgVars, mntVars, memoVars, need_network_reset, procVars, resVars,
                   waitVars, chkCount>>

\* if self.mounted: self.umount()
DelUmount ==
    /\ pc = "del_umount"
    /\ IF mounted
       THEN \E ans \in LocalAnswers : umount("del", ans)
       ELSE /\ UNCHANGED <<checkmtpoint, invalidmtpoint, chkCount>>
            /\ RmdirNext(1)
    /\ UNCHANGED <<cfgVars, mntVars, mtpoint_created, need_network_reset, procVars,
                   resVars, frameVars, waitVars, logVars, callVars, umVars>>

\* rmdir of one created mount point ended; a failure ends the teardown
DelRmdir_StopOnFailure ==
    /\ pc = "del_rmdir"
    /\ idx <= Len(mtpoint_created)
    /\ \E o \in Outcomes :
        /\ Exec("rmdir", mtpoint_created[idx], TRUE, o)
        /\ IF Raises(o)
           THEN pc' = "dead" /\ raised' = FALSE /\ exc' = NoExc /\ ret' = None
           ELSE RmdirNext(idx + 1)
    /\ idx' = idx + 1
    /\ UNCHANGED <<cfgVars, mntVars, memoVars, need_network_reset, procVars,
                   cont, arg, i, waitVars, umVars, chkCount>>

\* rmdir of one created mount point ended
DelRmdir ==
    /\ pc = "del_rmdir"
    /\ idx <= Len(mtpoint_created)
    /\ \E o \in Outcomes : Exec("rmdir", mtpoint_created[idx], TRUE, o)
    /\ idx' = idx + 1
    /\ RmdirNext(idx + 1)
    /\ UNCHANGED <<cfgVars, mntVars, memoVars, need_network_reset, procVars,
                   cont, arg, i, waitVars, umVars, chkCount>>

(***************************************************************************)
(* Background commands: run_cmd(wait=False), wait_cmd(), stop_cmd()        *)
(***************************************************************************)
Pids == 1..MaxPid

\* a tracked Popen object: which one it is, its pid, and whether the command
\* was started with sudo (which the object itself does not record)
Tracked(h) == {e \in Range(process_list) : e.id = h}

\* proc in self.process_list
IsTracked(h) == Tracked(h) # {}

Entry(h) == CHOOSE e \in Range(process_list) : e.id = h

\* the pids of the children not yet waited for: the system cannot reuse them
PidsInUse == {e.pid : e \in Range(process_list)}

\* self.process_list.remove(proc)
Remove(s, h) ==
    LET k == CHOOSE j \in 1..Len(s) : s[j].id = h /\ \A m \in 1..(j - 1) : s[m].id # h
    IN  SubSeq(s, 1, k - 1) \o SubSeq(s, k + 1, Len(s))

\* run_cmd(cmd, sudo, wait=False): the command is started and tracked
run_cmd_bg(sudo, pid) ==
    /\ Begin("run_bg")
    /\ Frame("none", NoText)
    /\ nprocs < MaxProcs
    /\ pid \notin PidsInUse
    /\ nprocs' = nprocs + 1
    /\ process' = nprocs + 1
    /\ pstdout' = NoText
    /\ pstderr' = NoText
    /\ perror' = NoText
    /\ returncode' = 0
    /\ process_list' = Append(process_list, [id |-> nprocs + 1, pid |-> pid, sudo |-> sudo])
    /\ process_dmap' = process_dmap \cup {pid}
    /\ process_smap' = IF sudo THEN process_smap \cup {pid} ELSE process_smap
    /\ plist' = << >>
    /\ terminate' = FALSE
    /\ out' = None
    /\ Return(None)
    /\ UNCHANGED <<cfgVars, mntVars, memoVars, need_network_reset, chkCount>>

CallRunBg == \E sudo \in BOOLEAN, pid \in Pids : run_cmd_bg(sudo, pid)

\* wait_cmd() that takes only the first tracked process when it is given none
wait_cmd_FirstOnly(proc, term) ==
    /\ Begin(IF term THEN "stop_cmd" ELSE "wait_cmd")
    /\ Frame("none", NoText)
    /\ plist' = IF proc = 0
                THEN [k \in 1..(IF Len(process_list) > 0 THEN 1 ELSE 0) |->
                          process_list[k].id]
                ELSE <<proc>>
    /\ terminate' = term
    /\ out' = None
    /\ IF plist' = << >> THEN Return(None) ELSE Goto("w_loop")
    /\ UNCHANGED <<cfgVars, mntVars, memoVars, need_network_reset, procVars, resVars,
                   chkCount>>

\* wait_cmd(process, terminate): process 0 stands for None
wait_cmd(proc, term) ==
    /\ Begin(IF term THEN "stop_cmd" ELSE "wait_cmd")
    /\ Frame("none", NoText)
    /\ plist' = IF proc = 0 THEN [k \in 1..Len(process_list) |-> process_list[k].id]
                ELSE <<proc>>
    /\ terminate' = term
    /\ out' = None
    /\ IF plist' = << >> THEN Return(None) ELSE Goto("w_loop")
    /\ UNCHANGED <<cfgVars, mntVars, memoVars, need_network_reset, procVars, resVars,
                   chkCount>>

CallWaitCmd == \E proc \in 0..nprocs : wait_cmd(proc, FALSE)

\* stop_cmd(process) is wait_cmd(process, terminate=True)
stop_cmd(proc) == wait_cmd(proc, TRUE)

CallStopCmd == \E proc \in 0..nprocs : stop_cmd(proc)

\* the loop goes on with the rest of plist, or wait_cmd() returns out
WaitNext(rest, o) ==
    /\ plist' = rest
    /\ out' = o
    /\ IF rest = << >> THEN Return(o) ELSE Goto("w_loop")

\* if proc.pid in self.process_smap
KillWithSudo(pid) == pid \in process_smap

\* one pass of the loop of wait_cmd(), up to the kill command if it issues one
WLoop ==
    /\ pc = "w_loop"
    /\ LET proc == Head(plist) IN
       IF ~IsTracked(proc)
       THEN /\ WaitNext(Tail(plist), out)
            /\ UNCHANGED <<process_list, killed, signalled>>
       ELSE IF terminate /\ KillWithSudo(Entry(proc).pid)
       THEN /\ Goto("w_kill")
            /\ killed' = killed \cup {Entry(proc)}
            /\ UNCHANGED <<process_list, plist, out, signalled>>
       ELSE /\ signalled' = IF terminate THEN signalled \cup {Entry(proc)} ELSE signalled
            /\ process_list' = Remove(process_list, proc)
            /\ \E st \in ExitCodes : WaitNext(Tail(plist), <<st>>)
            /\ UNCHANGED killed
    /\ UNCHANGED <<cfgVars, mntVars, memoVars, need_network_reset, process_smap,
                   process_dmap, nprocs, resVars, frameVars, terminate, logVars,
                   op, mountedBefore, ncmds, cmdFailed, lastCmd, lastOut, umVars,
                   chkCount>>

\* the kill command ended
WKill ==
    /\ pc = "w_kill"
    /\ \E o \in Outcomes :
        /\ Exec("kill", NoText, TRUE, o)
        /\ IF Raises(o)
           THEN /\ Raise(CmdExc(o), op)
                /\ UNCHANGED <<process_list, process_smap, plist, out>>
           ELSE /\ process_smap' = process_smap \ {Entry(Head(plist)).pid}
                /\ process_list' = Remove(process_list, Head(plist))
                /\ \E st \in ExitCodes : WaitNext(Tail(plist), <<st>>)
    /\ UNCHANGED <<cfgVars, mntVars, memoVars, need_network_reset, process_dmap,
                   nprocs, frameVars, terminate, umVars, chkCount>>

NextProc ==
    \/ CallRunBg \/ CallWaitCmd \/ CallStopCmd \/ WLoop \/ WKill

\* the no-op mount flag plays no part in the registry
InitProc == Init /\ ~nomount

\* a session's registry of background processes
SpecProc == InitProc /\ [][NextProc]_vars

NextMount ==
    \/ CallMount \/ ChkE \/ ChkD \/ ChkMkdir \/ MntCmd \/ DdTest \/ DdMkdir
    \/ CallUmount \/ UmTry
    \/ CallRunCmd \/ RunDone
    \/ del \/ DelUmount \/ DelRmdir

\* the mount life cycle of a session
Spec == Init /\ [][NextMount]_vars

\* mount() without a mtpoint argument: on self.mtpoint
CallMountDefault ==
    \E dd \in DataDirs, ans \in LocalAnswers : mount(mtpoint, dd, ans)

NextCmd ==
    \/ CallMountDefault \/ ChkE \/ ChkD \/ ChkMkdir \/ MntCmd \/ DdTest \/ DdMkdir

\* mount() under every choice of the mount options
SpecCmd == InitCmd /\ [][NextCmd]_vars

\* a session on /mnt/t, with the documented options
InitSep ==
    /\ localhost \in BOOLEAN
    /\ nomount = FALSE
    /\ options = DefaultOptions
    /\ mtpoint = PathMntT
    /\ InitFields

\* mount() with a mtpoint argument
CallMountArg ==
    \E mtp \in MtArgs, dd \in DataDirs, ans \in LocalAnswers : mount(mtp, dd, ans)

NextSep ==
    \/ CallMountArg \/ ChkE \/ ChkD \/ ChkMkdir \/ MntCmd \/ DdTest \/ DdMkdir

\* mount() called with mount points that end in separators
SpecSep == InitSep /\ [][NextSep]_vars

CallNetworkDrop == network_drop

CallNetworkReset == network_reset

\* mount() without a datadir argument
CallMountPlain ==
    \E mtp \in MtArgs \cup {mtpoint}, ans \in LocalAnswers : mount(mtp, NoText, ans)

\* __del__() and network_reset() read mounted, mtpoint, the memo lists and
\* need_network_reset: states that differ in these are reached by mount() and
\* network_drop().  The caller's own commands and umount() calls, which set
\* none of them to a value these do not reach, are left out, and so is datadir.
NextNet ==
    \/ CallMountPlain \/ ChkE \/ ChkD \/ ChkMkdir \/ MntCmd \/ DdTest \/ DdMkdir
    \/ del \/ DelUmount \/ UmTry \/ DelRmdir
    \/ CallNetworkDrop \/ NdCmd
    \/ CallNetworkReset \/ NrFlush \/ NrDelete

\* mounts, network faults and teardown
SpecNet == Init /\ [][NextNet]_vars

\* the caller's own commands touch only the recorded result: they are left out
NextLife ==
    \/ CallMount \/ ChkE \/ ChkD \/ ChkMkdir \/ MntCmd \/ DdTest \/ DdMkdir
    \/ CallUmount \/ UmTry
    \/ del \/ DelUmount \/ DelRmdir

\* every call that validates a mount point or changes the mounted flag
SpecLife == Init /\ [][NextLife]_vars

(***************************************************************************)
(* The claims                                                              *)
(***************************************************************************)
\* a call of handler o has ended
Ended(o) == pc = "idle" /\ op = o

Last(s) == s[Len(s)]

\* C1: the mounted flag is false before any call, and afterwards it is true
\* only if a mount command has succeeded and no umount attempt since then has
\* succeeded or been accepted as "not mounted" (mountOk is that history of the
\* commands, kept apart from the flag).
C1_MountedOnlyAfterMount ==
    /\ mounted => mountOk
    /\ op = "none" => ~mounted

\* C1 witness: a mounted session that an umount() has failed to unmount
C1_Witness == Ended("umount") /\ mounted /\ mountOk /\ Len(umHist) = UmountTries

\* C2: umount() issues umount -f at most 5 times, sleeps 1 second for each
\* attempt, makes no attempt after one that ended the loop, does not stop
\* before the 5th attempt while the attempts fail, and after 4 failures and a
\* success has made exactly 5 attempts and left mounted false.
C2_UmountRetries ==
    /\ Len(umHist) <= UmountTries
    /\ sleeps = SleepSeconds * Len(umHist)
    /\ \A k \in 1..(Len(umHist) - 1) : umHist[k] = "fail"
    /\ (pc # "um_try" /\ Len(umHist) > 0) =>
           (Last(umHist) # "fail" \/ Len(umHist) = UmountTries)
    /\ (pc # "um_try" /\ Len(umHist) > 0 /\ Last(umHist) = "ok") => ~mounted

\* C2 witness: attempts 1-4 failed, attempt 5 succeeded
C2_Witness ==
    /\ Ended("umount")
    /\ Len(umHist) = UmountTries
    /\ Last(umHist) = "ok"
    /\ mountedBefore
    /\ ~mounted

\* the text a failed command reports: its stderr on the local host, and on a
\* remote host what ssh -t -t delivers on stdout
Reported(o) == IF localhost THEN o.err ELSE o.out

\* C3: an attempt ends the loop, with mounted false and no error, when the
\* command exits zero or the error text run_cmd() recorded for it (self.perror)
\* matches 'not (mounted|found)', and only then; in particular when the umount
\* command of a local or remote session ran and failed reporting "not mounted"
\* (exit status neither 0 nor 255, the status of ssh itself).
C3_NotMountedAccepted ==
    lastCmd.kind = "umount" =>
        /\ (lastOut.rc = 0 \/ re_search(perror)) =>
               (~mounted /\ pc # "um_try" /\ ~raised)
        /\ (lastOut.rc \notin {0, SshError} /\ re_search(Reported(lastOut))) =>
               (~mounted /\ pc # "um_try" /\ ~raised)
        /\ (lastOut.rc # 0 /\ ~re_search(perror)) => mounted = mountedBefore

\* C3 witness: umount() of a remote session that was not mounted, ended by the
\* first attempt's "not mounted"
C3_Witness ==
    /\ Ended("umount")
    /\ ~localhost
    /\ ~mountedBefore
    /\ umHist = <<"gone">>
    /\ lastOut.rc = 1
    /\ ~mounted
    /\ ~raised

\* C4: when all 5 attempts fail without matching the pattern, umount() returns
\* without raising, mounted is what it was before the call, and the result of
\* the last attempt (exit status, stdout, stderr, and self.perror unless the
\* status is 255) is what the session records.
C4_UmountGivesUp ==
    (Ended("umount") /\ Len(umHist) = UmountTries /\ Last(umHist) = "fail") =>
        /\ ~raised
        /\ mounted = mountedBefore
        /\ lastCmd.kind = "umount"
        /\ returncode = lastOut.rc
        /\ returncode # 0
        /\ pstdout = lastOut.out
        /\ pstderr = lastOut.err
        /\ (lastOut.rc # SshError => perror = Reported(lastOut))

\* C4 witness: a mounted session still mounted after 5 failed attempts
C4_Witness ==
    /\ Ended("umount")
    /\ Len(umHist) = UmountTries
    /\ Last(umHist) = "fail"
    /\ mounted
    /\ returncode # 0

\* C5 as claimed: when the mount command or a command mount() runs after it
\* is the one that failed, mount() raises and a session that was not mounted
\* is not mounted afterwards.
C5_Original ==
    (/\ Ended("mount")
     /\ ~mountedBefore
     /\ lastCmd.kind \in {"mount", "test_e_dd", "mkdir_dd", "os_mkdir"}
     /\ lastOut.rc # 0) => (raised /\ ~mounted)

\* C5 amended: a failure of the mkdir of the mount point or of the mount
\* command leaves mount() as an error with mounted as it was before the call;
\* a failure of the creation of the data directory leaves mount() as an error
\* with mounted true; no other command's failure is raised as a command error.
C5_MountFailure ==
    Ended("mount") =>
        /\ (lastCmd.kind \in {"mkdir_mt", "mount"} /\ lastOut.rc # 0) =>
               (raised /\ mounted = mountedBefore)
        /\ (lastCmd.kind \in {"mkdir_dd", "os_mkdir"} /\ lastOut.rc # 0) =>
               (raised /\ mounted)
        /\ (raised /\ exc.kind \in {"cmd", "oserror"}) =>
               (lastCmd.kind \in {"mkdir_mt", "mount", "mkdir_dd", "os_mkdir"}
                /\ lastOut.rc # 0)

\* C5 witness: the mount command succeeded on an unmounted session and the
\* creation of the data directory failed
C5_Witness ==
    /\ Ended("mount")
    /\ ~mountedBefore
    /\ lastCmd.kind = "mkdir_dd"
    /\ lastOut.rc # 0
    /\ raised
    /\ mounted

\* a step in which mount(), umount() or __del__() calls _check_mtpoint()
\* with a path that has been validated before
Revalidation ==
    /\ \/ pc = "idle" /\ op' = "mount"
       \/ pc = "idle" /\ op' = "umount" /\ ~nomount
       \/ pc = "del_umount" /\ mounted
    /\ arg' \in Range(checkmtpoint)

\* C6: for every path the existence check of _check_mtpoint() is made at most
\* once in a session and the mkdir of the mount point is issued at most once,
\* however the first validation ended; a later validation of the path asks
\* nothing, runs no command and leaves the memo lists as they are.
C6_ValidatedOnce ==
    /\ [](\A p \in KeyPaths : chkCount[p] <= 1 /\ mkdirCount[p] <= 1)
    /\ [][Revalidation =>
             /\ UNCHANGED <<memoVars, chkCount, mkdirCount>>
             /\ pc' \notin {"chk_e", "chk_d", "chk_mkdir"}]_vars

\* C6 witness: a mount() of a remote session on a path validated before, whose
\* validation failed at the mkdir: the call issued the mount command alone
C6_Witness ==
    /\ Ended("mount")
    /\ ~localhost
    /\ ncmds = 1
    /\ lastCmd.kind = "mount"
    /\ chkCount[arg] = 1
    /\ mkdirCount[arg] = 1
    /\ arg \notin Range(mtpoint_created)

\* C7 as claimed: a mount() or umount() against a path already recorded as
\* invalid returns without a command and leaves mounted, the mount path, the
\* data directory and the memo lists as they were.
C7_Original ==
    [][(pc = "idle" /\ op' \in {"mount", "umount"}
        /\ arg' \in Range(invalidmtpoint))
       => (pc' = "idle" /\ ncmds' = 0 /\ ~raised'
           /\ UNCHANGED <<mounted, mtpoint, mtdir, memoVars>>)]_vars

\* C8 as claimed: a background command adds one tracked process; stop_cmd()
\* issues the kill with sudo for the processes started with sudo and for no
\* other, sends the terminate signal to the others, and a stop_cmd() that
\* returned has removed every process it handled.
C8_Original ==
    /\ Ended("run_bg") =>
           (Len(process_list) > 0 /\ Last(process_list).id = nprocs
            /\ Cardinality(Tracked(nprocs)) = 1)
    /\ \A e \in killed : e.sudo
    /\ \A e \in signalled : ~e.sudo
    /\ (Ended("stop_cmd") /\ ~raised) =>
           \A e \in killed \cup signalled : ~IsTracked(e.id)

\* the error payload the claim gives a blocking command
ClaimedPayload(o) ==
    IF o.rc = 0 THEN NoText
    ELSE IF localhost THEN o.err
    ELSE IF o.rc = SshError THEN o.err
    ELSE o.out

\* C9 as claimed: after a blocking run_cmd() the session records the exit
\* status and the error payload (stderr for a local failure and for a remote
\* exit status 255, stdout for another remote failure, empty for status 0);
\* the call raises exactly on a non-zero status, with that payload, and
\* returns stdout otherwise.
C9_Original ==
    Ended("run_cmd") =>
        /\ returncode = lastOut.rc
        /\ perror = ClaimedPayload(lastOut)
        /\ raised <=> lastOut.rc # 0
        /\ raised => exc.payload = perror
        /\ ~raised => ret = lastOut.out

\* C10 as claimed: every path made by a successful mkdir command of the
\* session, the data directory made by mkdir -m 0777 -p included, is in
\* _mtpoint_created.
C10_Original ==
    /\ mkdirOk \subseteq Range(mtpoint_created)
    /\ (lastCmd.kind = "mkdir_dd" /\ lastOut.rc = 0) =>
           lastCmd.path \in Range(mtpoint_created)

\* C10 amended: _mtpoint_created holds exactly the mount points whose mkdir -p
\* in _check_mtpoint() succeeded; a data directory created after a mount is
\* not added to it; __del__() issues rmdir for the recorded paths in their
\* order and for nothing else.
C10_CreatedRecorded ==
    /\ Range(mtpoint_created) = mkdirOk
    /\ lastCmd.kind \in {"mkdir_dd", "os_mkdir"} =>
           (lastCmd.path \in Range(mtpoint_created) => lastCmd.path \in mkdirOk)
    /\ op # "del" => rmdirTried = << >>
    /\ op = "del" =>
           /\ Len(rmdirTried) <= Len(mtpoint_created)
           /\ rmdirTried = SubSeq(mtpoint_created, 1, Len(rmdirTried))
    /\ pc = "dead" => (~raised /\ rmdirTried = mtpoint_created)

\* C10 witness: the teardown of a session that created two mount points and a
\* data directory
C10_Witness ==
    /\ pc = "dead"
    /\ Len(mtpoint_created) = 2
    /\ rmdirTried = mtpoint_created
    /\ mtdir \notin Range(mtpoint_created)

\* the place of a command in the order of __del__()
TeardownRank(kind) ==
    CASE kind = "none" -> 0
      [] kind = "iptables_flush" -> 1
      [] kind = "iptables_delete_chain" -> 2
      [] kind = "umount" -> 3
      [] kind = "rmdir" -> 4
      [] OTHER -> 5

\* C11: __del__() issues its commands in the order network reset (flush, then
\* delete-chain), umount attempts, rmdir; when it has ended it has not raised,
\* it has run the two reset commands if and only if network_drop() was called
\* in the session, umount attempts if and only if mounted was true, and an
\* rmdir with sudo for every path of _mtpoint_created, whatever failed before.
C11_Teardown ==
    /\ [][(op = "del" /\ op' = "del") =>
             /\ TeardownRank(lastCmd'.kind) <= 4
             /\ TeardownRank(lastCmd'.kind) >= TeardownRank(lastCmd.kind)
             /\ (ncmds' # ncmds /\ TeardownRank(lastCmd'.kind) < 3) =>
                    TeardownRank(lastCmd'.kind) > TeardownRank(lastCmd.kind)
             /\ (ncmds' # ncmds /\ lastCmd'.kind = "rmdir") => lastCmd'.sudo]_vars
    /\ [](pc = "dead" =>
             /\ ~raised
             /\ rmdirTried = mtpoint_created
             /\ (Len(umHist) > 0) <=> mountedBefore
             /\ ncmds = (IF need_network_reset THEN 2 ELSE 0)
                        + Len(umHist) + Len(rmdirTried))
    /\ [][need_network_reset' <=>
             (need_network_reset \/ (pc = "idle" /\ op' = "network_drop"))]_vars

\* C11 witness: a teardown after network_drop() that ran the reset, then
\* 5 failing umount attempts, then the rmdir of both created mount points
C11_Witness ==
    /\ pc = "dead"
    /\ need_network_reset
    /\ mountedBefore
    /\ mounted
    /\ Len(umHist) = UmountTries
    /\ Len(rmdirTried) = 2
    /\ ncmds = 2 + UmountTries + 2

\* C12: with nomount set no step changes mounted or the recorded mount path,
\* no mount or umount command and no command on the data directory is issued,
\* umount() issues no command at all, and a mount() of a path not validated
\* before still validates it (and creates it when it is absent: the witness).
C12_Nomount ==
    /\ [][nomount => UNCHANGED <<mounted, mtpoint>>]_vars
    /\ [](nomount =>
             /\ ~mounted
             /\ lastCmd.kind \notin {"mount", "umount", "test_e_dd", "mkdir_dd", "os_mkdir"}
             /\ umHist = << >>
             /\ op = "umount" => (pc = "idle" /\ ncmds = 0 /\ ~raised))
    /\ [][(nomount /\ pc = "idle" /\ op' = "mount"
           /\ arg' \notin Range(checkmtpoint)) =>
             (arg' \in Range(checkmtpoint') /\ chkCount'[arg'] = chkCount[arg'] + 1)]_vars

\* C12 witness: with nomount set, mount() of an absent path other than the
\* recorded one has created it and returned without a mount command
C12_Witness ==
    /\ nomount
    /\ Ended("mount")
    /\ ~raised
    /\ lastCmd.kind = "mkdir_mt"
    /\ lastOut.rc = 0
    /\ arg \in Range(mtpoint_created)
    /\ arg # mtpoint
    /\ ~mounted

\* the command of the example: mount -o vers=4,minorversion=1,hard,rsize=4096,
\* wsize=4096,proto=tcp,sec=sys,port=2049 10.0.0.1:/x /mnt/t
ExampleMountCmd ==
    <<"m", "o", "u", "n", "t", " ", "-", "o", " ", "v", "e", "r", "s", "=",
      "4", ",", "m", "i", "n", "o", "r", "v", "e", "r", "s", "i", "o", "n",
      "=", "1", ",", "h", "a", "r", "d", ",", "r", "s", "i", "z", "e", "=",
      "4", "0", "9", "6", ",", "w", "s", "i", "z", "e", "=", "4", "0", "9",
      "6", ",", "p", "r", "o", "t", "o", "=", "t", "c", "p", ",", "s", "e",
      "c", "=", "s", "y", "s", ",", "p", "o", "r", "t", "=", "2", "0", "4",
      "9", " ", "1", "0", ".", "0", ".", "0", ".", "1", ":", "/", "x", " ",
      "/", "m", "n", "t", "/", "t">>

\* the option string without the comma it may end in
WithoutComma(m) ==
    IF Len(m) > 0 /\ m[Len(m)] = "," THEN SubSeq(m, 1, Len(m) - 1) ELSE m

\* the export path as mounted: without trailing separators unless it is the root
ClaimedExport(e) == IF e = ExportRoot THEN e ELSE rstrip(e)

\* the command line of the claimed form
ClaimedMountCmd(o, mtp) ==
    FmtMount \o Dec(o.nfsversion) \o Comma
    \o (IF o.nfsversion = 4 THEN FmtMinor \o Dec(o.minorversion) \o Comma ELSE NoText)
    \o WithoutComma(o.mtopts) \o Comma
    \o FmtProto \o o.proto \o FmtSec \o o.sec \o FmtPort \o Dec(o.port)
    \o Space \o o.server \o Colon \o ClaimedExport(o.export) \o Space \o mtp

\* the commands mount() issues from its mount command on
FromMountOn == {"mount", "test_e_dd", "mkdir_dd", "os_mkdir"}

\* C13: the mount command is issued with sudo and has the claimed form, with
\* the minorversion clause exactly for version 4 and one comma after the
\* option string whether or not the string ended in one; it is the example's
\* command for the example's arguments; a mount() that returns without an
\* error on a valid path has issued it, and no mount() issues it twice.  (With
\* an empty option string mount() fails at mtopts[-1] and issues no mount
\* command.)
C13_MountCommand ==
    /\ [](lastCmd.kind = "mount" =>
             /\ lastCmd.sudo
             /\ lastCmd.text = ClaimedMountCmd(options, lastCmd.path)
             /\ Search(FmtMinor, lastCmd.text) <=> options.nfsversion = 4
             /\ (options = DefaultOptions /\ lastCmd.path = PathMntT) =>
                    lastCmd.text = ExampleMountCmd)
    /\ [](Ended("mount") /\ ~raised /\ arg \notin Range(invalidmtpoint) =>
             lastCmd.kind \in FromMountOn)
    /\ [][(ncmds' # ncmds /\ lastCmd'.kind = "mount") =>
             lastCmd.kind \notin FromMountOn]_vars

\* C13 witness: the mount command of the example has been issued
C13_Witness ==
    /\ lastCmd.kind = "mount"
    /\ options = DefaultOptions
    /\ lastCmd.path = PathMntT
    /\ lastCmd.text = ExampleMountCmd
    /\ lastCmd.sudo

RECURSIVE Slashes(_)
\* k separators
Slashes(k) == IF k = 0 THEN << >> ELSE <<"/">> \o Slashes(k - 1)

\* a step of mount(mtpoint=mtp), whatever the data directory is
MountStep(mtp) == \E dd \in DataDirs, ans \in LocalAnswers : mount(mtp, dd, ans)

\* C14: a step is a step of mount(p) exactly if it is a step of mount(p/) and
\* of mount(p//); the path validated, named in the mount command, recorded by
\* a successful mount and returned is the path without trailing separators.
C14_TrailingSeparators ==
    /\ [][\A p \in {PathA, PathB} : \A k \in 1..2 :
             MountStep(p) <=> MountStep(p \o Slashes(k))]_vars
    /\ [](/\ \A q \in Range(checkmtpoint) : q = rstrip(q)
          /\ \A q \in KeyPaths : q # rstrip(q) => chkCount[q] = 0
          /\ op = "mount" => arg = rstrip(arg)
          /\ lastCmd.kind = "mount" =>
                 (lastCmd.path = arg /\ lastCmd.text = mount_cmd(options, arg))
          /\ (lastCmd.kind = "mount" /\ lastOut.rc = 0) => (mounted /\ mtpoint = arg)
          /\ (Ended("mount") /\ ~raised /\ lastCmd.kind \in FromMountOn) =>
                 (ret = arg /\ mtpoint = arg))

\* C14 witness: mount() of /a/ or /a// has validated, mounted, recorded and
\* returned /a
C14_Witness ==
    /\ Ended("mount")
    /\ ~raised
    /\ mounted
    /\ checkmtpoint = <<PathA>>
    /\ lastCmd.kind = "mount"
    /\ lastCmd.text = mount_cmd(options, PathA)
    /\ mtpoint = PathA
    /\ ret = PathA

\* the Popen objects of a list of tracked processes
Ids(s) == [k \in 1..Len(s) |-> s[k].id]

\* what proc.wait() returns
Statuses == {<<c>> : c \in ExitCodes}

\* C15: wait_cmd() and stop_cmd() called without a process take the processes
\* tracked at the call, in their order (none: the call returns None); from
\* then on each pass of the loop that handles a process removes that process,
\* the first of those left, and makes its exit status the value to return; the
\* processes left to handle are those still tracked, and when the call returns
\* without an error none is tracked and the value returned is the status of
\* the last process handled.
C15_WaitAll ==
    /\ [][(wait_cmd(0, FALSE) \/ stop_cmd(0)) =>
             /\ plist' = Ids(process_list)
             /\ process_list = << >> => (pc' = "idle" /\ ret' = None)]_vars
    /\ [][(pc \in {"w_loop", "w_kill"} /\ plist = Ids(process_list)) =>
             /\ plist' = Ids(process_list')
             /\ process_list' # process_list =>
                    (process_list' = Tail(process_list) /\ out' \in Statuses)
             /\ process_list' = process_list => out' = out
             /\ (pc' = "idle" /\ ~raised') =>
                    (process_list' = << >> /\ ret' = out' /\ ret' \in Statuses)]_vars

\* C15 witness: wait_cmd() without a process has handled and removed the first
\* of two tracked processes and is about to handle the second
C15_Witness ==
    /\ pc = "w_loop"
    /\ op = "wait_cmd"
    /\ nprocs = 2
    /\ Len(plist) = 1
    /\ plist = Ids(process_list)
    /\ out \in Statuses

\* C16: network_reset() issues the flush with sudo and then, whatever the
\* flush ended with, the delete-chain with sudo; it has issued both commands
\* when it returns, and it never raises.
C16_NetworkReset ==
    /\ [][(ncmds' # ncmds /\ lastCmd'.kind = "iptables_flush") =>
             (pc' = "nr_delete" /\ ~raised' /\ lastCmd'.sudo /\ ncmds = 0)]_vars
    /\ [][(ncmds' # ncmds /\ lastCmd'.kind = "iptables_delete_chain") =>
             (lastCmd.kind = "iptables_flush" /\ lastCmd'.sudo /\ ~raised')]_vars
    /\ [](pc = "nr_delete" => lastCmd.kind = "iptables_flush")
    /\ [](Ended("network_reset") =>
             (~raised /\ ncmds = 2 /\ lastCmd.kind = "iptables_delete_chain"))

\* C16 witness: network_reset() has returned; its flush failed and its
\* delete-chain succeeded
C16_Witness ==
    /\ Ended("network_reset")
    /\ ncmds = 2
    /\ cmdFailed
    /\ lastOut.rc = 0
    /\ ~raised

\* C17: whenever mounted is true the recorded mount path has been validated
\* and is not recorded as invalid; umount() called on a mounted session goes
\* to its first umount attempt without a probe, a mkdir or a change of the
\* memo lists, and issues umount commands only.
C17_MountedIsValidated ==
    /\ [](mounted =>
             (mtpoint \in Range(checkmtpoint) /\ mtpoint \notin Range(invalidmtpoint)))
    /\ [][(mounted /\ pc = "idle" /\ op' = "umount") =>
             (pc' = "um_try" /\ ~raised' /\ UNCHANGED <<memoVars, chkCount, mkdirCount>>)]_vars
    /\ []((op = "umount" /\ mountedBefore) =>
             /\ lastCmd.kind \in {"none", "umount"}
             /\ pc \in {"idle", "um_try"}
             /\ pc = "idle" => (ncmds = Len(umHist) /\ ncmds >= 1))

\* C17 witness: umount() of a session mounted on /b has unmounted it with one
\* command
C17_Witness ==
    /\ Ended("umount")
    /\ mountedBefore
    /\ mtpoint = PathB
    /\ ncmds = 1
    /\ lastCmd.kind = "umount"
    /\ ~mounted

\* the validation of p ended in an error: its mkdir failed, or p is not a
\* directory
ValidationFailed(p) ==
    \/ mkdirCount[p] >= 1 /\ p \notin mkdirOk
    \/ p \in Range(invalidmtpoint)

\* C18 as claimed: the mount command is issued only for a path that has been
\* validated in the session and whose validation did not end in an error.
C18_Original ==
    lastCmd.kind = "mount" =>
        (lastCmd.path \in Range(checkmtpoint) /\ ~ValidationFailed(lastCmd.path))

\* C19 as claimed: whenever mounted is false, every path whose mount command
\* succeeded has since had an umount of that path succeed (or answer that the
\* path is not mounted).
C19_Original == ~mounted => mountsLive = {}

\* C20 as claimed: process_smap marks only pids of tracked processes that
\* were started with sudo, so that a process started without sudo is never
\* stopped with the kill command.
C20_Original ==
    /\ \A pid \in process_smap :
           \E e \in Range(process_list) : e.pid = pid /\ e.sudo
    /\ \A e \in killed : e.sudo

\* C21 as claimed: umount() never raises to its caller, whatever the session
\* went through before the call: called before any mount(), after a failed
\* mount(), or on a configured mount point not validated yet, it has returned
\* when it has ended, the failures inside it logged only.
C21_Original == Ended("umount") => ~raised

====
